---- MODULE Spec2Model ----
(***************************************************************************)
(* RedisService (connection registry over ioredis handles) and its         *)
(* closeAll fan-out, as a state machine.  One action per API call and per  *)
(* transport signal / promise settlement; each action runs every listener  *)
(* the service registered for that signal, in registration order.          *)
(***************************************************************************)
EXTENDS Integers, Sequences, FiniteSets, TLC

\* ---------------------------------------------------------------- bounds
\* Number of transport handles (new Redis / new Redis.Cluster) ever opened.
MaxHandles == 2

\* Number of transport handles opened in the specifications that follow one
\* name with every logger argument or with a changing script registry.
MaxOneNameHandles == 1

\* zaddLimit calls: members 1..MaxMembers, scores 0..MaxScore, limits
\* 0..MaxLimit and trim counts (ARGV[4]) 0..MaxTrim.
MaxMembers == 3

MaxScore == 2

MaxLimit == 2

MaxTrim == 2

\* Number of setHIfHigher / setHIfLower calls made on the hash field.
MaxHashCalls == 3

\* The largest time to live, in seconds, given to expire and expireNX.
MaxTtl == 100

\* Number of register calls the journalling caller makes.
MaxRegisterCalls == 3

\* Number of direct setupLogger calls.
MaxLoggerCalls == 3

\* Number of times the cluster retry strategy is asked for a delay.
MaxRetryTimes == 40

\* ---------------------------------------------------------------- inputs
\* Numbers that may have a fraction (hash field values, numberOfKeys) are
\* counted in halves: Whole(5) is the number 5, Whole(5) + 1 is 5.5.
Whole(n) == 2 * n

Names == {"a", "b"}

\* luaScriptNames arguments tried by the creation calls: none, and a list of
\* one unknown name followed by two registered ones.
LuaScriptNameInputs == {<<>>, <<"unknownScript", "zaddLimit", "expireNX">>}

\* The luaScriptNames argument tried while the script registry changes: a
\* name that is not registered at first and a default one.
ChangingScriptNameInputs == {<<"customScript", "zaddLimit">>}

\* register(name, script) arguments: a new name and a default one; a valid
\* definition, one with numberOfKeys 0 and one with an empty body.
RegisterNameInputs == {"customScript", "zaddLimit"}

DefinitionInputs ==
    {[numberOfKeys |-> Whole(1), lua |-> "customBody"],
     [numberOfKeys |-> 0, lua |-> "customBody"],
     [numberOfKeys |-> Whole(1), lua |-> ""]}

\* register(name, script) arguments of the journalling caller: two valid
\* definitions; numberOfKeys 0, -1, 1.5 and missing; an empty and a missing
\* body.
RegistryDefinitionInputs ==
    {[numberOfKeys |-> Whole(1), lua |-> "bodyOne"],
     [numberOfKeys |-> Whole(2), lua |-> "bodyTwo"],
     [numberOfKeys |-> 0, lua |-> "bodyOne"],
     [numberOfKeys |-> Whole(-1), lua |-> "bodyOne"],
     [numberOfKeys |-> Whole(1) + 1, lua |-> "bodyOne"],
     [lua |-> "bodyOne"],
     [numberOfKeys |-> Whole(1), lua |-> ""],
     [numberOfKeys |-> Whole(1)]}

\* getScripts(names) arguments of the journalling caller: none; a new name, a
\* default one and one that is never registered; a name given twice.
FetchNameInputs ==
    {<<>>, <<"customScript", "zaddLimit", "unknownScript">>,
     <<"zaddLimit", "zaddLimit">>}

\* options.nodes arguments tried by createClusterConnection:
\* missing, not an array, an empty array, an array of one node.
NodesInputs == {"missing", "notArray", "empty", "oneNode"}

\* options.logger arguments tried by the creation calls: absent, an object
\* with the four methods, an object lacking one of them.
LoggerInputs == {"none", "valid", "invalid"}

\* customLogger arguments of the direct setupLogger calls: undefined, two
\* objects with the four methods, one without warn, one whose info and debug
\* are strings, and one without any of the methods.
LoggerObjectInputs ==
    {"none", "valid", "validOther", "invalid", "notCallable", "empty"}

\* ------------------------------------------------- luaScriptService.js
\* Names registered by registerDefaultScripts().
DefaultScripts ==
    {"zaddLimit", "expireNX", "setHIfHigher", "setHIfLower", "getPolylineChunks"}

\* The definition registerDefaultScripts() stores under a name; the body is
\* identified by the name it was written for.
DefaultDefinition(n) ==
    [numberOfKeys |-> IF n \in {"setHIfHigher", "setHIfLower"}
                      THEN Whole(2) ELSE Whole(1),
     lua |-> n]

\* -------------------------------------------------------------- REDIS_EVENTS
REDIS_EVENTS ==
    {"connect", "ready", "error", "close", "reconnecting", "end", "wait", "select"}

\* ----------------------------------------------------------------- state
VARIABLES
    connections,  \* this.connections: name -> {connection, luaScripts}
    handles,      \* every transport handle opened so far, by id 1..Len
    closing,      \* the closeAll call in flight or last settled
    emitted,      \* the last step's transport signal and the events the
                  \* service emitted on it, in order
    observing,    \* whether a listener records the emitted events
    logger,       \* this.logger
    scripts,      \* LuaScriptsService.scripts: name -> {numberOfKeys, lua}
    zset,         \* the sorted set at KEYS[1]: member -> score
    zadded,       \* the members given to zaddLimit so far
    zlimit,       \* ARGV[3] of the zaddLimit calls
    ztrim,        \* ARGV[4] of the zaddLimit calls
    hfield,       \* the hash field KEYS[2] of the hash KEYS[1]: <<>> when
                  \* absent, else <<value>>
    hcalls,       \* the setHIfHigher / setHIfLower calls made on it, in order
    ttlkey,       \* the key given to expireNX, as the ttl command reports it:
                  \* -2 no such key, -1 no expiry, else the seconds left
    ttlcall,      \* the last expireNX call, if any: key before and after,
                  \* argument, reply
    bbox,         \* the four sorted sets KEYS[1]:bbox:lat:min, :lat:max,
                  \* :lon:min, :lon:max, each member -> score
    tmp,          \* the sorted set KEYS[1]:tmp, member -> count; <<>> when
                  \* the key does not exist
    queries,      \* per client, its getPolylineChunks call if it made one:
                  \* arguments, KEYS[1]:tmp before, result
    journalling,  \* whether the caller of the script registry keeps a journal
    journal,      \* its register calls, in order
    fetched,      \* its last getScripts call, if any: names, result, registry
                  \* before and after
    logcalls,     \* the direct setupLogger calls, in order, each with its
                  \* outcome and this.logger before and after
    retry         \* the clusterRetryStrategy of one clusterOptions object:
                  \* what options gave, what redisOptions holds, and the
                  \* delays it returned for times = 1, 2, ...

serviceVars == <<connections, handles, closing, emitted, observing, logger>>

zsetVars == <<zset, zadded, zlimit, ztrim>>

hashVars == <<hfield, hcalls>>

keyVars == <<ttlkey, ttlcall>>

bboxVars == <<bbox, tmp, queries>>

storeVars == <<zsetVars, hashVars, keyVars, bboxVars>>

callerVars == <<journalling, journal, fetched, logcalls>>

vars == <<serviceVars, scripts, storeVars, callerVars, retry>>

HandleIds == 1..Len(handles)

NoCloseAll == [status |-> "idle", snapshot |-> {}, issued |-> {}, reported |-> {}]

\* new LuaScriptsService(): the five default scripts.
RegisterDefaultScripts == [n \in DefaultScripts |-> DefaultDefinition(n)]

\* No script call has been made: an absent key, no arguments yet.
NoZset ==
    /\ zset = <<>>
    /\ zadded = {}
    /\ zlimit = 0
    /\ ztrim = 0

\* The hash field is absent and no hash script has run.
NoHash ==
    /\ hfield = <<>>
    /\ hcalls = <<>>

\* The key does not exist and expireNX has not run.
NoKey ==
    /\ ttlkey = -2
    /\ ttlcall = <<>>

\* Two clients that call getPolylineChunks with the same KEYS[1].
Clients == {"client1", "client2"}

\* No chunk is stored under KEYS[1] and no client has queried.
NoBbox ==
    /\ bbox = [latmin |-> <<>>, latmax |-> <<>>, lonmin |-> <<>>, lonmax |-> <<>>]
    /\ tmp = <<>>
    /\ queries = [c \in Clients |-> <<>>]

NoStore == NoZset /\ NoHash /\ NoKey /\ NoBbox

\* constructor(): an empty registry and the default logger; nothing opened,
\* nothing emitted.  The script service singleton holds the default scripts.
ServiceConstructed ==
    /\ connections = <<>>
    /\ handles = <<>>
    /\ closing = NoCloseAll
    /\ emitted = <<>>
    /\ logger = "defaultLogger"
    /\ scripts = RegisterDefaultScripts

\* The registry's caller has called nothing.
NoCalls ==
    /\ journal = <<>>
    /\ fetched = <<>>
    /\ logcalls = <<>>

NoJournal == journalling = FALSE /\ NoCalls

\* No clusterOptions object is followed.
NoRetry == retry = [given |-> "absent", held |-> "none", delays |-> <<>>]

Constructed == ServiceConstructed /\ NoStore /\ NoJournal /\ NoRetry

\* A listener is subscribed to every event of the service.
Init == Constructed /\ observing = TRUE

\* Nobody listens: the events are emitted and lost.
InitQuiet == Constructed /\ observing = FALSE

\* A getScripts that answers with the definitions of registerDefaultScripts.
GetDefaultScripts(names) ==
    LET known == SelectSeq(names, LAMBDA x : x \in DOMAIN scripts)
    IN  [i \in 1..Len(known) |->
            [name |-> known[i],
             script |-> IF known[i] \in DefaultScripts
                        THEN DefaultDefinition(known[i]) ELSE scripts[known[i]]]]

\* A getScripts that gives nothing when one of the names is not registered.
GetScriptsAllOrNone(names) ==
    IF \A i \in DOMAIN names : names[i] \in DOMAIN scripts
    THEN [i \in DOMAIN names |-> [name |-> names[i], script |-> scripts[names[i]]]]
    ELSE <<>>

\* getScripts(names): the requested names that are registered, in the order
\* requested, each with the definition the registry holds now; the others are
\* omitted.
GetScripts(names) ==
    LET known == SelectSeq(names, LAMBDA x : x \in DOMAIN scripts)
    IN  [i \in 1..Len(known) |-> [name |-> known[i], script |-> scripts[known[i]]]]

\* !script.numberOfKeys || !script.lua
Falsy(script, property, zero) ==
    property \notin DOMAIN script \/ script[property] = zero

ValidDefinition(script) ==
    ~(Falsy(script, "numberOfKeys", 0) \/ Falsy(script, "lua", ""))

\* A set that keeps what is already stored under the name.
ScriptsSetIfAbsent(name, script) ==
    [k \in DOMAIN scripts \cup {name} |->
        IF k \in DOMAIN scripts THEN scripts[k] ELSE script]

\* this.scripts.set(name, script)
ScriptsSet(name, script) ==
    [k \in DOMAIN scripts \cup {name} |->
        IF k = name THEN script ELSE scripts[k]]

\* register(name, script): throws on an invalid definition, else stores the
\* definition under the name, replacing what was there.  A journalling caller
\* notes the call, whether it threw, and the registry before and after.
Register(name, script) ==
    /\ scripts' = IF ValidDefinition(script)
                  THEN ScriptsSet(name, script)
                  ELSE scripts
    /\ journal' = IF journalling
                  THEN Append(journal,
                              [name |-> name, script |-> script,
                               threw |-> ~ValidDefinition(script),
                               before |-> scripts, after |-> scripts'])
                  ELSE journal
    /\ UNCHANGED <<serviceVars, storeVars, journalling, fetched, logcalls, retry>>

\* this.connections.has(name)
Has(n) == n \in DOMAIN connections

\* this.connections.get(name) on the map m, then the handle or the throw.
GetConnectionIn(m, n) ==
    IF n \in DOMAIN m THEN [returns |-> m[n].connection]
    ELSE [throws |-> "NotFoundError"]

\* getConnection(name): returns the handle stored under name, or throws.
GetConnection(n) == GetConnectionIn(connections, n)

\* The handle h is what getConnection returns for its name.
Registered(h) == GetConnection(handles[h].name) = [returns |-> h]

\* A registry that holds a single record: storing one drops the others.
MapSetAlone(m, n, v) == [k \in {n} |-> v]

\* this.connections.set(name, {connection, luaScripts})
MapSet(m, n, v) == [k \in DOMAIN m \cup {n} |-> IF k = n THEN v ELSE m[k]]

SetHandle(h, field, v) == [handles EXCEPT ![h][field] = v]

\* ------------------------------------------------------------------ events
\* this.emit(name, payload)
Ev(event, about) == [event |-> event, about |-> about]

\* What is seen of a handler's emissions: all of them, in order, when a
\* listener is subscribed.  No emission feeds back into the service.
Emit(events) == IF observing THEN events ELSE <<>>

\* The arguments the transport h passes with a signal: the error object with
\* 'error', the delay with 'reconnecting', none with the others.
SignalArgs(h, signal) ==
    IF signal = "error" THEN <<[error |-> h]>>
    ELSE IF signal = "reconnecting" THEN <<"delay">>
    ELSE <<>>

\* The transport h emitting a signal, as seen on the transport itself.
TransportSignal(h, signal) ==
    [event |-> "signal", handle |-> h, signal |-> signal,
     args |-> SignalArgs(h, signal)]

\* A forwarder that re-emits on the connection-qualified channel alone.
ForwardedQualifiedOnly(n, signal, args) ==
    <<[event |-> "qualified", about |-> n, signal |-> signal, args |-> args]>>

\* _setupEventForwarding: '<connectionName>:<signal>' with the arguments and
\* then 'redis' with {connection, event, args}.
Forwarded(n, signal, args) ==
    <<[event |-> "qualified", about |-> n, signal |-> signal, args |-> args],
      [event |-> "redis", about |-> n, signal |-> signal, args |-> args]>>

\* this.emit('connectionError', {connectionName, error}); the error object is
\* the one the transport handle h raised.
ConnectionError(n, h) == [event |-> "connectionError", about |-> n, error |-> h]

\* The names of a luaScripts object.
ScriptNames(luaScripts) == {luaScripts[i].name : i \in 1..Len(luaScripts)}

\* connection.defineCommand for the first k entries of luaScripts, on a handle
\* that has the commands of bound: name -> definition.
DefineCommands(bound, luaScripts, k) ==
    [c \in DOMAIN bound \cup ScriptNames(SubSeq(luaScripts, 1, k)) |->
        IF \E i \in 1..k : luaScripts[i].name = c
        THEN luaScripts[CHOOSE i \in 1..k :
                           /\ luaScripts[i].name = c
                           /\ \A j \in i+1..k : luaScripts[j].name # c].script
        ELSE bound[c]]

\* defineLuaCommands: for each entry of luaScripts in order, defineCommand and
\* then one luaCommandDefined.  A listener of the i-th event sees the registry
\* m as the caller left it and the commands defined up to the i-th.
DefineLuaCommands(n, m, bound, luaScripts) ==
    [i \in 1..Len(luaScripts) |->
        [event |-> "luaCommandDefined", about |-> n,
         commandName |-> luaScripts[i].name,
         registered |-> GetConnectionIn(m, n),
         bound |-> DOMAIN DefineCommands(bound, luaScripts, i)]]

\* this.emit('connectionEstablished', name), with what its listener sees.
ConnectionEstablished(n, m, bound) ==
    [event |-> "connectionEstablished", about |-> n,
     registered |-> GetConnectionIn(m, n),
     bound |-> DOMAIN bound]

\* ------------------------------------------------------------ setupLogger
\* typeof customLogger[method] === 'function' for info, error, debug, warn.
\* typeof customLogger[method] for the objects the calls are tried with.
Typeof(customLogger, method) ==
    CASE customLogger \in {"valid", "validOther"} -> "function"
      [] customLogger = "invalid" ->
            IF method = "warn" THEN "undefined" ELSE "function"
      [] customLogger = "notCallable" ->
            IF method \in {"info", "debug"} THEN "string" ELSE "function"
      [] OTHER -> "undefined"

requiredMethods == <<"info", "error", "debug", "warn">>

\* A filter that stops at the first method found missing.
FirstMissingMethod(customLogger) ==
    LET missing == SelectSeq(requiredMethods,
                             LAMBDA method : Typeof(customLogger, method) # "function")
    IN  SubSeq(missing, 1, IF Len(missing) > 0 THEN 1 ELSE 0)

\* requiredMethods.filter(method => typeof customLogger[method] !== 'function')
MissingMethods(customLogger) ==
    SelectSeq(requiredMethods,
              LAMBDA method : Typeof(customLogger, method) # "function")

LoggerComplete(customLogger) == Len(MissingMethods(customLogger)) = 0

\* setupLogger(customLogger): returns the default logger when no logger is
\* given; throws, naming the missing methods, when one is missing; else
\* installs the logger.
SetupLoggerOutcome(customLogger) ==
    IF customLogger = "none"
    THEN [logger |-> logger, threw |-> FALSE, listed |-> <<>>,
          returned |-> <<"defaultLogger">>]
    ELSE IF Len(MissingMethods(customLogger)) > 0
    THEN [logger |-> logger, threw |-> TRUE,
          listed |-> MissingMethods(customLogger), returned |-> <<>>]
    ELSE [logger |-> customLogger, threw |-> FALSE, listed |-> <<>>,
          returned |-> <<>>]

\* this.logger after setupLogger(customLogger).
SetupLogger(customLogger) == SetupLoggerOutcome(customLogger).logger

\* RedisService.setupLogger(customLogger), called directly.
SetupLoggerCall(customLogger) ==
    /\ Len(logcalls) < MaxLoggerCalls
    /\ logger' = SetupLogger(customLogger)
    /\ logcalls' = Append(logcalls,
                          [customLogger |-> customLogger, before |-> logger,
                           after |-> logger',
                           threw |-> SetupLoggerOutcome(customLogger).threw,
                           listed |-> SetupLoggerOutcome(customLogger).listed,
                           returned |-> SetupLoggerOutcome(customLogger).returned])
    /\ UNCHANGED <<connections, handles, closing, emitted, observing, scripts,
                   storeVars, journalling, journal, fetched, retry>>

\* Any sequence of direct setupLogger calls.
NextLogger == \E customLogger \in LoggerObjectInputs : SetupLoggerCall(customLogger)

SpecLogger == InitQuiet /\ [][NextLogger]_vars

\* --------------------------------------------------------- creation calls
\* new Redis(...) + getScripts + _setupEventForwarding +
\* _handleConnectionPromise: a fresh handle, connecting, with the creation
\* promise pending and the definitions fetched at the call.
NewHandle(n, scriptNames) ==
    [name |-> n,
     requested |-> scriptNames,
     luaScripts |-> IF Len(scriptNames) > 0 THEN GetScripts(scriptNames) ELSE <<>>,
     bound |-> <<>>,
     status |-> "connecting",
     promise |-> "pending",
     everConnected |-> FALSE,
     quit |-> "none"]

\* The name check at call entry: only registered names are refused.
NameTaken(n) == Has(n)

\* Opening a transport is what the model bounds; a refused call opens none.
CanOpen == Len(handles) < MaxHandles

\* The part the two creation calls share once their validation has passed:
\* setupLogger when options.logger is given (it may throw), then emit
\* connectionAttempt, open the transport, fetch the scripts, subscribe.
Open(n, customLogger, scriptNames) ==
    IF customLogger # "none" /\ ~LoggerComplete(customLogger)
    THEN \* setupLogger throws: the call rejects, nothing emitted or opened
         /\ emitted' = Emit(<<>>)
         /\ UNCHANGED <<handles, logger>>
    ELSE /\ CanOpen
         /\ logger' = IF customLogger = "none" THEN logger
                      ELSE SetupLogger(customLogger)
         /\ emitted' = Emit(<<Ev("connectionAttempt", n)>>)
         /\ handles' = Append(handles, NewHandle(n, scriptNames))

CreateConnection(n, customLogger, scriptNames) ==
    /\ IF NameTaken(n)
       THEN \* emit 'error', throw: nothing is opened, nothing is stored
            /\ emitted' = Emit(<<Ev("error", "DuplicateNameError")>>)
            /\ UNCHANGED <<handles, logger>>
       ELSE Open(n, customLogger, scriptNames)
    /\ UNCHANGED <<connections, closing, observing, scripts, storeVars, callerVars, retry>>

\* A validation that only looks at whether options.nodes was given.
NodesPresent(nodes) == nodes # "missing"

\* options.nodes && Array.isArray(options.nodes) && options.nodes.length > 0
NodesValid(nodes) == nodes = "oneNode"

CreateClusterConnection(n, nodes, customLogger, scriptNames) ==
    /\ IF NameTaken(n)
       THEN /\ emitted' = Emit(<<Ev("error", "DuplicateNameError")>>)
            /\ UNCHANGED <<handles, logger>>
       ELSE IF ~NodesValid(nodes)
       THEN /\ emitted' = Emit(<<Ev("error", "InvalidTopologyError")>>)
            /\ UNCHANGED <<handles, logger>>
       ELSE Open(n, customLogger, scriptNames)
    /\ UNCHANGED <<connections, closing, observing, scripts, storeVars, callerVars, retry>>

\* A getConnection(name) call: on a miss it logs, emits 'error' and throws;
\* on a hit it returns the handle.  Either way nothing is stored.
GetConnectionCall(n) ==
    /\ emitted' = IF GetConnection(n) = [throws |-> "NotFoundError"]
                  THEN Emit(<<Ev("error", "NotFoundError")>>)
                  ELSE Emit(<<>>)
    /\ UNCHANGED <<connections, handles, closing, observing, logger, scripts,
                   storeVars, callerVars, retry>>

\* ------------------------------------------------------ transport signals
\* The transport (ioredis) is the environment.  It emits connect while it is
\* connecting or reconnecting, close while it is not yet closed, reconnecting
\* or end after a close (no reconnect after a successful quit), and error at
\* any time before end.

\* A listener that fetched the requested definitions when the signal arrives.
FetchedOnSignal(h) == GetScripts(handles[h].requested)

\* The luaScripts the 'connect' listener closes over: the object the creation
\* call fetched and passed to _handleConnectionPromise.
CapturedScripts(h) == handles[h].luaScripts

\* A promise that no call of resolve or reject settles.
SettleNever(promise, outcome) == promise

\* A promise whose resolve and reject act each time they are called.
SettleAgain(promise, outcome) == outcome

\* resolve(connection) / reject(error) on the creation promise: the first call
\* settles it, a call on a settled promise does nothing.
Settle(promise, outcome) == IF promise = "pending" THEN outcome ELSE promise

\* 'connect': forwarded, then the listener of _handleConnectionPromise:
\* connections.set, defineLuaCommands, emit connectionEstablished, resolve.
OnConnect(h) ==
    LET n == handles[h].name
        luaScripts == CapturedScripts(h)
        stored == MapSet(connections, n,
                         [connection |-> h, luaScripts |-> luaScripts])
        bound == DefineCommands(handles[h].bound, luaScripts, Len(luaScripts))
    IN
    /\ handles[h].status \in {"connecting", "reconnecting"}
    /\ connections' = stored
    /\ handles' = [handles EXCEPT
                     ![h].status = "connect",
                     ![h].everConnected = TRUE,
                     ![h].bound = bound,
                     ![h].promise = Settle(@, "resolved")]
    /\ emitted' = Emit(<<TransportSignal(h, "connect")>>
                         \o Forwarded(n, "connect", SignalArgs(h, "connect"))
                         \o DefineLuaCommands(n, stored, handles[h].bound, luaScripts)
                         \o <<ConnectionEstablished(n, stored, bound)>>)
    /\ UNCHANGED <<closing, observing, logger, scripts, storeVars, callerVars, retry>>

\* 'error': forwarded, then the listener of _handleConnectionPromise:
\* log, emit connectionError, reject (a no-op on a settled promise).
OnError(h) ==
    LET n == handles[h].name IN
    /\ handles[h].status # "end"
    /\ handles' = [handles EXCEPT
                     ![h].promise = Settle(@, "rejected")]
    /\ emitted' = Emit(<<TransportSignal(h, "error")>>
                         \o Forwarded(n, "error", SignalArgs(h, "error")) \o <<ConnectionError(n, h)>>)
    /\ UNCHANGED <<connections, closing, observing, logger, scripts, storeVars, callerVars, retry>>

\* 'close': forwarded, then log and emit connectionClosed.
OnClose(h) ==
    LET n == handles[h].name IN
    /\ handles[h].status \in {"connecting", "connect", "reconnecting"}
    /\ handles' = SetHandle(h, "status", "close")
    /\ emitted' = Emit(<<TransportSignal(h, "close")>>
                         \o Forwarded(n, "close", SignalArgs(h, "close")) \o <<Ev("connectionClosed", n)>>)
    /\ UNCHANGED <<connections, closing, observing, logger, scripts, storeVars, callerVars, retry>>

\* 'reconnecting': forwarded, then log and emit connectionReconnecting.
OnReconnecting(h) ==
    LET n == handles[h].name IN
    /\ handles[h].status = "close"
    /\ handles[h].quit # "ok"
    /\ handles' = SetHandle(h, "status", "reconnecting")
    /\ emitted' = Emit(<<TransportSignal(h, "reconnecting")>>
                         \o Forwarded(n, "reconnecting", SignalArgs(h, "reconnecting"))
                         \o <<Ev("connectionReconnecting", n)>>)
    /\ UNCHANGED <<connections, closing, observing, logger, scripts, storeVars, callerVars, retry>>

\* 'end': forwarded, then log and emit connectionEnded.
OnEnd(h) ==
    LET n == handles[h].name IN
    /\ handles[h].status = "close"
    /\ handles' = SetHandle(h, "status", "end")
    /\ emitted' = Emit(<<TransportSignal(h, "end")>>
                         \o Forwarded(n, "end", SignalArgs(h, "end")) \o <<Ev("connectionEnded", n)>>)
    /\ UNCHANGED <<connections, closing, observing, logger, scripts, storeVars, callerVars, retry>>

\* 'ready', 'select', 'wait': forwarded only; no other listener is registered.
\* ready and select come from a link that is up, wait from one not yet opened.
OnForwardedOnly(h, signal) ==
    LET n == handles[h].name IN
    /\ signal \in REDIS_EVENTS \ {"connect", "error", "close", "reconnecting", "end"}
    /\ IF signal = "wait"
       THEN handles[h].status = "connecting"
       ELSE handles[h].status = "connect"
    /\ emitted' = Emit(<<TransportSignal(h, signal)>>
                         \o Forwarded(n, signal, SignalArgs(h, signal)))
    /\ UNCHANGED <<connections, handles, closing, observing, logger, scripts, storeVars, callerVars, retry>>

\* ---------------------------------------------------------------- closeAll
\* Array.from(this.connections.values()): the handles registered at the call.
Snapshot == {connections[n].connection : n \in DOMAIN connections}

\* A sequential shutdown loop (for ... await connection.quit()) would issue
\* only the first quit at the call and stop at the first failure.
QuitTargetsSequential(snapshot) ==
    IF snapshot = {} THEN {}
    ELSE {CHOOSE h \in snapshot : \A x \in snapshot : h <= x}

\* The map callback runs for every entry of the snapshot before the first
\* await is resumed: quit() is issued on each of them at the call.
QuitTargets(snapshot) == snapshot

\* What a rejected closeAll reports: Promise.all rejects with the error of the
\* first shutdown that failed, and with nothing else.
RejectionReport(h) == {h}

\* One closeAll at a time, called when no earlier shutdown is still pending.
CloseAll ==
    /\ closing.status # "waiting"
    /\ \A h \in HandleIds : handles[h].quit # "pending"
    /\ LET snapshot == Snapshot
           issued == QuitTargets(snapshot)
       IN  IF snapshot = {}
           THEN \* Promise.all([]) resolves; clear; emit allConnectionsClosed
                /\ connections' = <<>>
                /\ closing' = [status |-> "resolved", snapshot |-> {},
                               issued |-> {}, reported |-> {}]
                /\ emitted' = Emit(<<Ev("closingAllConnections", "all"),
                                     Ev("allConnectionsClosed", "all")>>)
                /\ UNCHANGED handles
           ELSE /\ handles' = [h \in HandleIds |->
                                 IF h \in issued
                                 THEN [handles[h] EXCEPT !.quit = "pending"]
                                 ELSE handles[h]]
                /\ closing' = [status |-> "waiting", snapshot |-> snapshot,
                               issued |-> issued, reported |-> {}]
                /\ emitted' = Emit(<<Ev("closingAllConnections", "all")>>)
                /\ UNCHANGED connections
    /\ UNCHANGED <<observing, logger, scripts, storeVars, callerVars, retry>>

\* A combinator that resolves with the first shutdown that resolves
\* (Promise.any).
AnyResolved(snapshot, hs) == \E x \in snapshot : hs[x].quit = "ok"

\* await Promise.all(closePromises) goes on once every shutdown of the
\* snapshot has resolved.
AllResolved(snapshot, hs) == \A x \in snapshot : hs[x].quit = "ok"

\* connection.quit() resolves: emit connectionClosed (with the handle); when
\* it was the last of the snapshot, Promise.all resolves and closeAll goes on
\* in the same turn: connections.clear(), emit allConnectionsClosed.
QuitResolve(h) ==
    /\ handles[h].quit = "pending"
    /\ handles[h].status = "connect"
    /\ handles' = SetHandle(h, "quit", "ok")
    /\ IF /\ closing.status = "waiting"
          /\ AllResolved(closing.snapshot, handles')
       THEN /\ connections' = <<>>
            /\ closing' = [closing EXCEPT !.status = "resolved"]
            /\ emitted' = Emit(<<Ev("connectionClosed", h),
                                 Ev("allConnectionsClosed", "all")>>)
       ELSE /\ emitted' = Emit(<<Ev("connectionClosed", h)>>)
            /\ UNCHANGED <<connections, closing>>
    /\ UNCHANGED <<observing, logger, scripts, storeVars, callerVars, retry>>

\* A closeAll that clears the registry however its shutdowns settled (the
\* clear in a finally block).
ClearedOnRejection(m) == <<>>

\* The registry after 'await Promise.all' has thrown: connections.clear() and
\* the statements after it are not reached, the map is as it was.
SkippedOnRejection(m) == m

\* connection.quit() rejects: the callback's promise rejects; the first such
\* rejection rejects Promise.all and closeAll with it, the registry untouched.
QuitReject(h) ==
    /\ handles[h].quit = "pending"
    /\ handles' = SetHandle(h, "quit", "failed")
    /\ IF closing.status = "waiting"
       THEN /\ closing' = [closing EXCEPT !.status = "rejected",
                                          !.reported = RejectionReport(h)]
            /\ connections' = SkippedOnRejection(connections)
       ELSE UNCHANGED <<closing, connections>>
    /\ emitted' = Emit(<<>>)
    /\ UNCHANGED <<observing, logger, scripts, storeVars, callerVars, retry>>

\* ------------------------------------------------------------ next, spec
\* The calls and signals of the service, with the creation calls' arguments
\* drawn from the given sets.
CallsOn(names, nodesInputs, loggerInputs, scriptInputs) ==
    \/ \E n \in names, l \in loggerInputs, s \in scriptInputs :
          CreateConnection(n, l, s)
    \/ \E n \in names, nodes \in nodesInputs, l \in loggerInputs, s \in scriptInputs :
          CreateClusterConnection(n, nodes, l, s)
    \/ \E n \in names : GetConnectionCall(n)

\* The transport signals, closeAll and the settlement of its shutdowns.
Reactions ==
    \/ \E h \in HandleIds : OnConnect(h)
    \/ \E h \in HandleIds : OnError(h)
    \/ \E h \in HandleIds : OnClose(h)
    \/ \E h \in HandleIds : OnReconnecting(h)
    \/ \E h \in HandleIds : OnEnd(h)
    \/ \E h \in HandleIds, signal \in REDIS_EVENTS : OnForwardedOnly(h, signal)
    \/ CloseAll
    \/ \E h \in HandleIds : QuitResolve(h)
    \/ \E h \in HandleIds : QuitReject(h)

NextOn(names, nodesInputs, loggerInputs, scriptInputs) ==
    \/ CallsOn(names, nodesInputs, loggerInputs, scriptInputs)
    \/ Reactions

Next == NextOn(Names, NodesInputs, {"none"}, LuaScriptNameInputs)

\* Every call and signal on two names with the logger left alone, every
\* emitted event observed.
Spec == Init /\ [][Next]_vars

\* The calls and signals of one name, with every logger argument, every
\* emitted event observed.
NextOne ==
    \/ /\ CallsOn({"a"}, NodesInputs, LoggerInputs, LuaScriptNameInputs)
       /\ Len(handles') <= MaxOneNameHandles
    \/ Reactions

SpecOne == Init /\ [][NextOne]_vars

\* The same calls and signals with no listener subscribed, no logger given,
\* no script requested and options.nodes either empty or one node: the
\* registry, the handles and closeAll alone.
NextQuiet == NextOn(Names, {"empty", "oneNode"}, {"none"}, {<<>>})

SpecQuiet == InitQuiet /\ [][NextQuiet]_vars

\* The calls and signals of one name with no logger given and no script
\* requested, every emitted event observed.
NextForward == NextOn({"a"}, {"empty", "oneNode"}, {"none"}, {<<>>})

SpecForward == Init /\ [][NextForward]_vars

\* The calls and signals of one name whose creation calls request scripts,
\* interleaved with register calls on the script registry; every emitted
\* event observed.
NextScripts ==
    \/ /\ CallsOn({"a"}, {"empty", "oneNode"}, {"none"}, ChangingScriptNameInputs)
       /\ Len(handles') <= MaxOneNameHandles
    \/ Reactions
    \/ \E name \in RegisterNameInputs, script \in DefinitionInputs :
          Register(name, script)

SpecScripts == Init /\ [][NextScripts]_vars

\* --------------------------------------------------- script registry calls
\* get(name): the definition stored under the name, or undefined.
Get(name) == IF name \in DOMAIN scripts THEN <<scripts[name]>> ELSE <<>>

\* getScripts(names), called by the journalling caller.
GetScriptsCall(names) ==
    /\ UNCHANGED <<serviceVars, scripts, storeVars, journalling, journal, logcalls, retry>>
    /\ fetched' = <<[names |-> names, result |-> GetScripts(names),
                     before |-> scripts, after |-> scripts']>>

InitRegistry ==
    /\ ServiceConstructed
    /\ NoStore
    /\ observing = FALSE
    /\ journalling = TRUE
    /\ NoCalls
    /\ NoRetry

\* Any register and getScripts calls on the singleton registry.
NextRegistry ==
    \/ /\ \E name \in RegisterNameInputs, script \in RegistryDefinitionInputs :
              Register(name, script)
       /\ Len(journal') <= MaxRegisterCalls
    \/ \E names \in FetchNameInputs : GetScriptsCall(names)

SpecRegistry == InitRegistry /\ [][NextRegistry]_vars

\* ------------------------------------------------------------- zaddLimit
Members == 1..MaxMembers

Scores == 0..MaxScore

\* Member order that ignores the scores.
BeforeByMember(z, a, b) == a < b

\* The order of a sorted set: by score, members of equal score by member.
Before(z, a, b) == z[a] < z[b] \/ (z[a] = z[b] /\ a < b)

\* The 0-based rank of a member of the sorted set z.
Rank(z, m) == Cardinality({x \in DOMAIN z : Before(z, x, m)})

\* redis.call('zadd', key, score, member): add the member or update its score.
ZAdd(z, score, member) ==
    [m \in DOMAIN z \cup {member} |-> IF m = member THEN score ELSE z[m]]

\* A range removal whose stop rank is exclusive.
ZRemRangeExclusive(z, start, stop) ==
    [m \in {x \in DOMAIN z : ~(Rank(z, x) >= start /\ Rank(z, x) < stop)} |-> z[m]]

\* redis.call('zremrangebyrank', key, start, stop): negative indexes count
\* from the end (-1 is the last); the range start..stop is inclusive, clipped
\* to the set, and empty when start is beyond stop or beyond the end.
ZRemRangeByRank(z, start, stop) ==
    LET len == Cardinality(DOMAIN z)
        s0 == IF start < 0 THEN len + start ELSE start
        e0 == IF stop < 0 THEN len + stop ELSE stop
        s1 == IF s0 < 0 THEN 0 ELSE s0
        e1 == IF e0 >= len THEN len - 1 ELSE e0
        gone == IF s1 > e0 \/ s1 >= len THEN {}
                ELSE {m \in DOMAIN z : Rank(z, m) >= s1 /\ Rank(z, m) <= e1}
    IN  [m \in DOMAIN z \ gone |-> z[m]]

\* The zaddLimit script on the sorted set z:
\* zadd; s = zcard; i = ARGV[4] - 1; if s > ARGV[3] then zremrangebyrank 0 i.
ZaddLimit(z, score, member, limit, trim) ==
    LET added == ZAdd(z, score, member)
        s == Cardinality(DOMAIN added)
        i == trim - 1
    IN  IF s > limit THEN ZRemRangeByRank(added, 0, i) ELSE added

\* redis.zaddLimit(key, score, member, limit, offset), run atomically.
ZaddLimitCall(member, score, limit, trim) ==
    /\ zset' = ZaddLimit(zset, score, member, limit, trim)
    /\ zadded' = zadded \cup {member}
    /\ zlimit' = limit
    /\ ztrim' = trim
    /\ UNCHANGED <<serviceVars, scripts, hashVars, keyVars, bboxVars, callerVars, retry>>

\* Any sequence of zaddLimit calls on one key, each with its own arguments.
NextZadd ==
    \E member \in Members, score \in Scores, limit \in 0..MaxLimit,
       trim \in 0..MaxTrim : ZaddLimitCall(member, score, limit, trim)

SpecZadd == InitQuiet /\ [][NextZadd]_vars

\* An empty set and one limit >= 0 and one trim count >= 1 for all the calls
\* of the run.
InitCapped ==
    /\ ServiceConstructed
    /\ observing = FALSE
    /\ zset = <<>>
    /\ zadded = {}
    /\ zlimit \in 0..MaxLimit
    /\ ztrim \in 1..MaxTrim
    /\ NoHash
    /\ NoKey
    /\ NoBbox
    /\ NoJournal
    /\ NoRetry

\* Any sequence of zaddLimit calls on one key with the limit and the trim
\* count of the run: new members, and members added again with any score.
NextCapped ==
    \E member \in Members, score \in Scores :
        ZaddLimitCall(member, score, zlimit, ztrim)

SpecCapped == InitCapped /\ [][NextCapped]_vars

\* Six distinct members with six distinct scores, not in member order.
SixMembers == 1..6

SixScore(m) == (m * 3) % 7

\* An empty set, limit 5 and one trim count for all the calls of the run.
InitSix ==
    /\ ServiceConstructed
    /\ observing = FALSE
    /\ zset = <<>>
    /\ zadded = {}
    /\ zlimit = 5
    /\ ztrim \in 0..MaxTrim
    /\ NoHash
    /\ NoKey
    /\ NoBbox
    /\ NoJournal
    /\ NoRetry

\* Each of the six members is inserted once, in any order.
NextSix ==
    \E member \in SixMembers \ zadded :
        ZaddLimitCall(member, SixScore(member), zlimit, ztrim)

SpecSix == InitSix /\ [][NextSix]_vars

\* ------------------------------------------- setHIfHigher / setHIfLower
\* The values and the replies of the hash scripts: values may have a
\* fraction and are counted in halves, replies are Redis integers and are
\* counted in units.
HashScripts == {"setHIfHigher", "setHIfLower"}

\* ARGV[1] of the hash scripts: 3, 5, 5.5 and 9.
HashValueInputs == {Whole(3), Whole(5), Whole(5) + 1, Whole(9)}

\* tonumber(redis.call('hget', KEYS[1], KEYS[2])): nil when the field is
\* absent, else its number.
HGet(field) == field

\* redis.call('hset', KEYS[1], KEYS[2], value): the field holds the value; the
\* reply is the number of fields created, 1 for a new field and 0 for an
\* overwritten one.
HSet(field, value) ==
    [field |-> <<value>>, reply |-> IF field = <<>> THEN 1 ELSE 0]

\* A Lua number returned by a script becomes a Redis integer reply: the
\* fraction is dropped.
IntegerReply(x) == IF x >= 0 THEN x \div 2 ELSE -((-x) \div 2)

\* A comparison that lets every value through: an unconditional set.
AlwaysBeats(script, value, c) == TRUE

\* tonumber(ARGV[1]) > c for setHIfHigher, tonumber(ARGV[1]) < c for
\* setHIfLower.
Beats(script, value, c) ==
    IF script = "setHIfHigher" THEN value > c ELSE value < c

\* The setHIfHigher / setHIfLower script on the field:
\* c = hget; if c then (if value beats c then hset, return value - c
\* else return 0) else return hset.
SetHIf(script, field, value) ==
    LET c == HGet(field)
    IN  IF c # <<>>
        THEN IF Beats(script, value, c[1])
             THEN [field |-> HSet(field, value).field,
                   reply |-> IntegerReply(value - c[1])]
             ELSE [field |-> field, reply |-> 0]
        ELSE HSet(field, value)

\* redis.setHIfHigher(key, field, value) / redis.setHIfLower(key, field,
\* value), run atomically.
SetHIfCall(script, value) ==
    /\ Len(hcalls) < MaxHashCalls
    /\ LET r == SetHIf(script, hfield, value)
       IN  /\ hfield' = r.field
           /\ hcalls' = Append(hcalls, [script |-> script, value |-> value,
                                        before |-> hfield, after |-> r.field,
                                        reply |-> r.reply])
    /\ UNCHANGED <<serviceVars, scripts, zsetVars, keyVars, bboxVars, callerVars, retry>>

\* Any sequence of hash script calls on one field that is absent at first.
NextHash ==
    \E script \in HashScripts, value \in HashValueInputs :
        SetHIfCall(script, value)

SpecHash == InitQuiet /\ [][NextHash]_vars

\* -------------------------------------------------------------- expireNX
\* What redis.call('ttl', key) reports for a missing key and for a key
\* without expiry.
NoSuchKey == -2

NoExpiry == -1

\* ARGV[1] of expire and expireNX, in seconds.
TtlInputs == {0, 5, MaxTtl}

\* redis.call('ttl', KEYS[1])
Ttl(key) == key

\* redis.call('expire', key, seconds): 0 when the key does not exist; else 1,
\* and the key is deleted when seconds is not positive, else it expires in
\* that many seconds.
Expire(key, seconds) ==
    IF key = NoSuchKey THEN [key |-> key, reply |-> <<0>>]
    ELSE [key |-> IF seconds <= 0 THEN NoSuchKey ELSE seconds, reply |-> <<1>>]

\* A guard that never holds back the expire.
AnyTtl(ttl) == TRUE

\* if ttl < 0
NoTtl(ttl) == ttl < 0

\* The expireNX script on the key: ttl = ttl(key); if ttl < 0 then return
\* expire(key, ARGV[1]); no reply otherwise.
ExpireNX(key, seconds) ==
    IF NoTtl(Ttl(key)) THEN Expire(key, seconds)
    ELSE [key |-> key, reply |-> <<>>]

\* redis.expireNX(key, ttl), run atomically.
ExpireNXCall(seconds) ==
    /\ LET r == ExpireNX(ttlkey, seconds)
       IN  /\ ttlkey' = r.key
           /\ ttlcall' = <<[before |-> ttlkey, seconds |-> seconds,
                            after |-> r.key, reply |-> r.reply]>>
    /\ UNCHANGED <<serviceVars, scripts, zsetVars, hashVars, bboxVars, callerVars, retry>>

\* Another client writes the key (set): it exists and has no expiry.
SetKey ==
    /\ ttlkey' = NoExpiry
    /\ UNCHANGED <<serviceVars, scripts, zsetVars, hashVars, bboxVars, ttlcall, callerVars, retry>>

\* Another client calls expire on the key.
ExpireCall(seconds) ==
    /\ ttlkey' = Expire(ttlkey, seconds).key
    /\ UNCHANGED <<serviceVars, scripts, zsetVars, hashVars, bboxVars, ttlcall, callerVars, retry>>

\* A second passes: the time to live runs down and the key is gone at its end.
Tick ==
    /\ ttlkey >= 0
    /\ ttlkey' = IF ttlkey = 0 THEN NoSuchKey ELSE ttlkey - 1
    /\ UNCHANGED <<serviceVars, scripts, zsetVars, hashVars, bboxVars, ttlcall, callerVars, retry>>

NextExpire ==
    \/ \E seconds \in TtlInputs : ExpireNXCall(seconds)
    \/ SetKey
    \/ \E seconds \in TtlInputs : ExpireCall(seconds)
    \/ Tick

SpecExpire == InitQuiet /\ [][NextExpire]_vars

\* ------------------------------------------------------ getPolylineChunks
\* The members (chunks) and the scores of the four sorted sets, and the
\* coordinates ARGV[1], ARGV[2] of the queries.
Chunks == {1, 2}

Coords == {0, 1}

\* A sorted set over some of the chunks.
AuxInputs == UNION {[S -> Coords] : S \in SUBSET Chunks}

\* The members of the sorted set z in sel, in the order of the set.
Ordered(z, sel) ==
    [i \in 1..Cardinality(sel) |->
        CHOOSE m \in sel : Cardinality({x \in sel : Before(z, x, m)}) = i - 1]

\* redis.call('zrange', key, '-inf', max, 'BYSCORE')
ZRangeUpTo(z, max) == Ordered(z, {m \in DOMAIN z : z[m] <= max})

\* redis.call('zrange', key, min, '+inf', 'BYSCORE')
ZRangeFrom(z, min) == Ordered(z, {m \in DOMAIN z : z[m] >= min})

\* An increment that counts a member twice.
ZIncrByTwice(z, increment, member) ==
    [m \in DOMAIN z \cup {member} |->
        IF m = member
        THEN (IF m \in DOMAIN z THEN z[m] ELSE 0) + 2 * increment
        ELSE z[m]]

\* redis.call('ZINCRBY', key, increment, member): a missing member counts
\* from 0.
ZIncrBy(z, increment, member) ==
    [m \in DOMAIN z \cup {member} |->
        IF m = member
        THEN (IF m \in DOMAIN z THEN z[m] ELSE 0) + increment
        ELSE z[m]]

\* for index, value in pairs(found) do ZINCRBY tmpkey 1 value end, from the
\* k-th value on.
RECURSIVE IncrEach(_, _, _)
IncrEach(z, found, k) ==
    IF k > Len(found) THEN z
    ELSE IncrEach(ZIncrBy(z, 1, found[k]), found, k + 1)

\* A DEL that leaves the key as it was.
Keep(z) == z

\* redis.call('DEL', tmpkey)
Del(z) == <<>>

\* The getPolylineChunks script on the four sorted sets and KEYS[1]:tmp:
\* four zrange BYSCORE, DEL tmpkey, one ZINCRBY per member found, and the
\* members of tmpkey with a score of 4 or more.
GetPolylineChunks(sets, tmpkey, lat, lon) ==
    LET latmin == ZRangeUpTo(sets.latmin, lat)
        latmax == ZRangeFrom(sets.latmax, lat)
        lonmin == ZRangeUpTo(sets.lonmin, lon)
        lonmax == ZRangeFrom(sets.lonmax, lon)
        t0 == Del(tmpkey)
        t1 == IncrEach(t0, latmin, 1)
        t2 == IncrEach(t1, latmax, 1)
        t3 == IncrEach(t2, lonmin, 1)
        t4 == IncrEach(t3, lonmax, 1)
    IN  [tmp |-> t4, result |-> ZRangeFrom(t4, 4)]

\* redis.getPolylineChunks(key, latitude, longitude) by a client that has not
\* queried yet; the server runs the script as one step.
GetPolylineChunksCall(client, lat, lon) ==
    /\ queries[client] = <<>>
    /\ LET r == GetPolylineChunks(bbox, tmp, lat, lon)
       IN  /\ tmp' = r.tmp
           /\ queries' = [queries EXCEPT ![client] =
                             <<[lat |-> lat, lon |-> lon, before |-> tmp,
                                result |-> r.result]>>]
    /\ UNCHANGED <<serviceVars, scripts, zsetVars, hashVars, keyVars, bbox, callerVars, retry>>

\* Any four sorted sets; KEYS[1]:tmp does not exist yet.
InitBbox ==
    /\ ServiceConstructed
    /\ observing = FALSE
    /\ NoZset
    /\ NoHash
    /\ NoKey
    /\ bbox \in [latmin : AuxInputs, latmax : AuxInputs,
                 lonmin : AuxInputs, lonmax : AuxInputs]
    /\ tmp = <<>>
    /\ queries = [c \in Clients |-> <<>>]
    /\ NoJournal
    /\ NoRetry

\* The two clients query the same KEYS[1] in either order.
NextBbox ==
    \E client \in Clients, lat \in Coords, lon \in Coords :
        GetPolylineChunksCall(client, lat, lon)

SpecBbox == InitBbox /\ [][NextBbox]_vars

\* ------------------------------------------------- clusterRetryStrategy
\* options.clusterRetryStrategy as given to createClusterConnection: no such
\* property, a property whose value is undefined, a function of the caller.
StrategyInputs == {"absent", "undefined", "custom"}

\* redisOptions.clusterRetryStrategy of clusterOptions:
\* clusterRetryStrategy: options.clusterRetryStrategy || default, followed by
\* ...options, which writes every property options has over it.
ClusterRetryStrategyOption(given) ==
    LET chosen == IF given \in {"absent", "undefined"} THEN "default" ELSE given
    IN  IF given = "absent" THEN chosen ELSE given

\* A linear backoff without the cap.
Uncapped(times) == times * 100

\* (times) => Math.min(times * 100, 2000)
DefaultClusterRetryStrategy(times) ==
    IF times * 100 < 2000 THEN times * 100 ELSE 2000

\* The clusterOptions built for any of the inputs; no retry yet.
InitRetry ==
    /\ ServiceConstructed
    /\ NoStore
    /\ NoJournal
    /\ observing = FALSE
    /\ \E given \in StrategyInputs :
          retry = [given |-> given, held |-> ClusterRetryStrategyOption(given),
                   delays |-> <<>>]

\* The transport asks the strategy for the delay of the next attempt; only
\* the default strategy's answers are followed.
RetryAttempt ==
    /\ Len(retry.delays) < MaxRetryTimes
    /\ retry' = [retry EXCEPT !.delays =
                    Append(@, IF retry.held = "default"
                              THEN <<DefaultClusterRetryStrategy(Len(@) + 1)>>
                              ELSE <<>>)]
    /\ UNCHANGED <<serviceVars, scripts, storeVars, callerVars>>

SpecRetry == InitRetry /\ [][RetryAttempt]_vars

\* The positions of a sequence of events that hold an event of the kind.
Positions(events, kind) == {i \in DOMAIN events : events[i].event = kind}

\* --------------------------------------------------- record state (spec 3)
\* The state of the record of handle h, read off what the listeners have
\* seen: FAILED once the creation promise was rejected before any connect,
\* CLOSED once the transport has ended or the shutdown has completed,
\* CLOSING while a shutdown is pending, CONNECTED while the link is up,
\* RECONNECTING when a link that was up is lost, CONNECTING otherwise.
StateOf(h) ==
    LET r == handles[h] IN
    IF r.promise = "rejected" /\ ~r.everConnected THEN "FAILED"
    ELSE IF r.status = "end" \/ r.quit = "ok" THEN "CLOSED"
    ELSE IF r.quit = "pending" THEN "CLOSING"
    ELSE IF r.status = "connect" THEN "CONNECTED"
    ELSE IF r.everConnected THEN "RECONNECTING"
    ELSE "CONNECTING"

\* Reached CONNECTED at least once and has not since reached CLOSED.
Active(h) == StateOf(h) \in {"CONNECTED", "RECONNECTING", "CLOSING"}

SameName(h1, h2) == h1 # h2 /\ handles[h1].name = handles[h2].name

\* ------------------------------------------------------------------ claims

\* C1: of two createConnection calls with the same unused name, the second
\* observes the reservation made at call entry and fails immediately, so two
\* calls for one name are never in flight (two transports opened) together.
C1_SecondCallFailsImmediately ==
    \A h1, h2 \in HandleIds :
        SameName(h1, h2) =>
            ~(handles[h1].promise = "pending" /\ handles[h2].promise = "pending")

\* C2: once a creation call was rejected by a transport error during the
\* initial connect, no later signal of that handle registers it: getConnection
\* never returns the handle of a rejected call.
C2_RejectedNeverRegistered ==
    \A h \in HandleIds : handles[h].promise = "rejected" => ~Registered(h)

\* C3: a name is in the registry if and only if a connection of that name has
\* reached CONNECTED at least once and has not since reached CLOSED.
C3_RegisteredIffActive ==
    \A n \in Names :
        Has(n) <=> \E h \in HandleIds : handles[h].name = n /\ Active(h)

\* C4: once createConnection(name) has resolved with handle h, getConnection(name)
\* keeps returning h in every step that is not part of a closeAll.
C4_ResolvedHandleStays ==
    [][\A h \in HandleIds :
          (handles[h].promise = "resolved" /\ Registered(h) /\ closing' = closing)
              => Registered(h)']_vars

\* C5: every record a closeAll removes from the registry is one whose shutdown
\* that call issued; a record registered after the snapshot is not removed.
C5_ClearsOnlyItsSnapshot ==
    [][(connections # <<>> /\ connections' = <<>>)
          => Snapshot \subseteq closing'.issued]_vars

\* C6: when a closeAll call finishes, resolved or rejected, every name that was
\* active when it started fails getConnection.
C6_SettledCloseAllLeavesNoName ==
    [][(closing.status = "waiting" /\ closing'.status \in {"resolved", "rejected"})
          => \A h \in closing.snapshot : GetConnection(handles[h].name)' = [throws |-> "NotFoundError"]]_vars

\* C7: by the time closeAll settles, resolved or rejected, the shutdown of every
\* connection of its snapshot has been issued, whichever shutdowns fail and in
\* whichever order they complete.
C7_AllShutdownsIssued ==
    closing.status \in {"resolved", "rejected"} =>
        /\ closing.issued = closing.snapshot
        /\ \A h \in closing.snapshot : handles[h].quit \in {"pending", "ok", "failed"}

\* C7 witness: closeAll was rejected by the first failing shutdown of a
\* snapshot of two while the other shutdown, already issued, is still pending.
C7_Witness ==
    /\ closing.status = "rejected"
    /\ Cardinality(closing.snapshot) = 2
    /\ closing.issued = closing.snapshot
    /\ \E h \in closing.snapshot : handles[h].quit = "failed"
    /\ \E h \in closing.snapshot : handles[h].quit = "pending"

\* C8: a closeAll in which a shutdown failed reports the outcome of every
\* connection of its snapshot.
C8_CompositeReport ==
    closing.status = "rejected" => closing.reported = closing.snapshot

\* C9: a transport failure of the initial connect is broadcast once: after the
\* creation call was rejected, no further connectionError is emitted for the
\* errors of that handle.
C9_ErrorSurfacedOnce ==
    [][\A h \in HandleIds :
          handles[h].promise = "rejected" =>
              ~\E i \in DOMAIN emitted' :
                  /\ emitted'[i].event = "connectionError"
                  /\ emitted'[i].error = h]_vars

\* C10: FAILED and CLOSED are terminal: a record in one of them keeps its state
\* and is not visible to getConnection afterwards.
C10_TerminalStates ==
    [][\A h \in HandleIds :
          StateOf(h) \in {"FAILED", "CLOSED"} =>
              /\ StateOf(h)' = StateOf(h)
              /\ ~Registered(h)']_vars

\* C11: every occurrence of a signal of the fixed set, on any handle in any
\* state, is re-emitted exactly once as '<name>:<signal>' with the signal's
\* arguments and exactly once as 'redis' {connection, event, args}, the two
\* together.
C11_ForwardedOnce ==
    \A k \in Positions(emitted, "signal") :
        /\ emitted[k].signal \in REDIS_EVENTS
        /\ \E i \in DOMAIN emitted :
              /\ Positions(emitted, "qualified") = {i}
              /\ Positions(emitted, "redis") = {i + 1}
              /\ \A j \in {i, i + 1} :
                    /\ emitted[j].about = handles[emitted[k].handle].name
                    /\ emitted[j].signal = emitted[k].signal
                    /\ emitted[j].args = emitted[k].args

\* C11 witness: after a closeAll has resolved and cleared the registry, the
\* close signal of a handle it shut down is forwarded on both channels.
C11_Witness ==
    /\ closing.status = "resolved"
    /\ \E h \in HandleIds :
          /\ handles[h].quit = "ok"
          /\ ~Registered(h)
          /\ Len(emitted) >= 3
          /\ emitted[1] = TransportSignal(h, "close")
          /\ emitted[2] = [event |-> "qualified", about |-> handles[h].name,
                           signal |-> "close", args |-> <<>>]
          /\ emitted[3] = [event |-> "redis", about |-> handles[h].name,
                           signal |-> "close", args |-> <<>>]

\* C12: the definitions bound on the first success signal of a connection are
\* the ones the script registry holds for the requested names when the signal
\* arrives.
C12_BoundAsOfSuccessSignal ==
    [][\A h \in HandleIds :
          (~handles[h].everConnected /\ handles'[h].everConnected) =>
              LET requested == {handles[h].requested[i] :
                                   i \in DOMAIN handles[h].requested}
              IN  handles'[h].bound =
                      [c \in requested \cap DOMAIN scripts |-> scripts[c]]]_vars

\* C13: on the success signal the scripts are bound before the connection is
\* registered and connectionEstablished comes last: whenever a listener of
\* luaCommandDefined or connectionEstablished finds the name registered, every
\* script fetched for that handle is already bound to it, and a listener of
\* connectionEstablished does find it registered.
C13_BoundBeforeRegistered ==
    \A i \in DOMAIN emitted :
        emitted[i].event \in {"luaCommandDefined", "connectionEstablished"} =>
            /\ \A h \in HandleIds :
                  emitted[i].registered = [returns |-> h] =>
                      ScriptNames(handles[h].luaScripts) \subseteq emitted[i].bound
            /\ emitted[i].event = "connectionEstablished" =>
                  emitted[i].registered # [throws |-> "NotFoundError"]

\* C15: getConnection(name) throws not-found whenever no connection of that
\* name is active (never created, still connecting, failed, or closed), and
\* what it returns is a handle created under that name.
C15_NotFoundUnlessActive ==
    \A n \in Names :
        /\ \A h \in HandleIds :
              GetConnection(n) = [returns |-> h] => handles[h].name = n
        /\ (~\E h \in HandleIds : handles[h].name = n /\ Active(h))
              => GetConnection(n) = [throws |-> "NotFoundError"]

\* The step is a createClusterConnection call whose options.nodes is missing,
\* not an array or empty.
InvalidTopologyCall(n) ==
    \E nodes \in NodesInputs \ {"oneNode"}, l \in LoggerInputs,
       s \in LuaScriptNameInputs : CreateClusterConnection(n, nodes, l, s)

\* The call left everything but the emitted 'error' as it was: no transport
\* handle opened, the registry and the logger unchanged.
NothingDone == UNCHANGED <<handles, connections, logger, retry>>

\* C16 as stated: every createClusterConnection call whose options.nodes is
\* missing, not a sequence or empty fails with the invalid-topology error, with
\* no handle opened, no connectionAttempt emitted, registry and logger unchanged.
C16_AlwaysInvalidTopology ==
    [][\A n \in Names :
          InvalidTopologyCall(n) =>
              /\ emitted' = <<Ev("error", "InvalidTopologyError")>>
              /\ NothingDone]_vars

\* C16 amended: such a call fails at call time with no handle opened, no
\* connectionAttempt emitted, registry and logger unchanged; the error is the
\* invalid-topology error when the name is not registered and the
\* duplicate-name error, raised first, when it is.
C16_InvalidTopologyUnlessDuplicate ==
    [][\A n \in Names :
          InvalidTopologyCall(n) =>
              /\ emitted' = <<Ev("error", IF NameTaken(n)
                                          THEN "DuplicateNameError"
                                          ELSE "InvalidTopologyError")>>
              /\ NothingDone]_vars

\* C16 witness: a call has just failed with the invalid-topology error while a
\* connection is being opened and the default logger is still installed.
C16_Witness ==
    /\ emitted = <<Ev("error", "InvalidTopologyError")>>
    /\ logger = "defaultLogger"
    /\ connections = <<>>
    /\ Len(handles) = 1

\* C17: a creation call with the name of an active connection is refused at
\* the name check (so it opens nothing and emits no connectionAttempt), and the
\* record of that name is there, unchanged, for getConnection to return.
C17_ActiveNameRefused ==
    \A h \in HandleIds :
        Active(h) =>
            /\ NameTaken(handles[h].name)
            /\ \E g \in HandleIds :
                  /\ handles[g].name = handles[h].name
                  /\ GetConnection(handles[h].name) = [returns |-> g]

\* The step is a signal of the transport handle h.
SignalOf(h) ==
    \/ OnConnect(h)
    \/ OnError(h)
    \/ OnClose(h)
    \/ OnReconnecting(h)
    \/ OnEnd(h)
    \/ \E signal \in REDIS_EVENTS : OnForwardedOnly(h, signal)

\* The record stored under the name, if any.
RecordOf(n) == {connections[k] : k \in DOMAIN connections \cap {n}}

\* C18: creation calls for distinct names are independent: no step that changes
\* the outcome of the call for one name, or the record stored under it, is a
\* signal (a failure included) of the transport of another name.
C18_DistinctNamesIndependent ==
    [][\A hA, hB \in HandleIds :
          (/\ handles[hA].name # handles[hB].name
           /\ \/ handles'[hA] # handles[hA]
              \/ RecordOf(handles[hA].name)' # RecordOf(handles[hA].name))
              => ~SignalOf(hB)]_vars

\* C18 witness: the call for one name has resolved and its own handle is the
\* one registered, while the call for the other name was rejected.
C18_Witness ==
    \E hA, hB \in HandleIds :
        /\ handles[hA].name # handles[hB].name
        /\ handles[hA].promise = "resolved"
        /\ Registered(hA)
        /\ handles[hB].promise = "rejected"
        /\ ~Has(handles[hB].name)

\* The members a call removed: in the set once added, gone afterwards.
Removed(member) == (DOMAIN zset \cup {member}) \ DOMAIN zset'

\* C19: a zaddLimit call adds (member, score) and, when the cardinality after
\* the add exceeds limit, removes exactly the trimCount lowest-score members
\* (none for trimCount 0) and no others; otherwise it removes nothing.
C19_TrimsLowest ==
    [][\A member \in Members, score \in Scores, limit \in 0..MaxLimit,
          trim \in 0..MaxTrim :
          ZaddLimitCall(member, score, limit, trim) =>
              LET added == ZAdd(zset, score, member)
                  lowest == {m \in DOMAIN added : Rank(added, m) < trim}
              IN  /\ Removed(member) =
                        IF Cardinality(DOMAIN added) > limit THEN lowest ELSE {}
                  /\ \A m \in DOMAIN zset' : zset'[m] = added[m]]_vars

\* The lowest-scored of the members inserted so far.
LowestAdded == {m \in zadded : \A x \in zadded : SixScore(m) <= SixScore(x)}

\* C20 as stated: from an empty set and with limit 5, once six distinct
\* members with distinct scores are inserted the cardinality is 5 and the one
\* member gone is the lowest-scored of the six, whatever the trim count.
C20_SixthInsertTrimsLowest ==
    Cardinality(zadded) = 6 =>
        /\ Cardinality(DOMAIN zset) = 5
        /\ zadded \ DOMAIN zset = LowestAdded

\* C20 amended: the same with trim count 1.
C20_SixthInsertTrimsLowestByOne ==
    (ztrim = 1 /\ Cardinality(zadded) = 6) =>
        /\ Cardinality(DOMAIN zset) = 5
        /\ zadded \ DOMAIN zset = LowestAdded

\* C20 witness: the sixth member was inserted with trim count 1 and the set is
\* back at five members.
C20_Witness ==
    /\ zlimit = 5
    /\ ztrim = 1
    /\ Cardinality(zadded) = 6
    /\ Cardinality(DOMAIN zset) = 5

\* C14: once a connection has been bound, no register call and no transport
\* signal changes the script names or the definitions bound to it.
C14_BoundFixedAtBindTime ==
    [][\A h \in HandleIds :
          handles[h].everConnected => handles'[h].bound = handles[h].bound]_vars

\* C14 witness: a handle that was already bound receives a connect signal again
\* (its first luaCommandDefined is seen with the later command already bound)
\* while the registry holds another definition of a bound name; the handle
\* still has the definition it was bound with.
C14_Witness ==
    \E h \in HandleIds :
        /\ emitted # <<>>
        /\ emitted[1] = TransportSignal(h, "connect")
        /\ \E i \in Positions(emitted, "luaCommandDefined") :
              /\ emitted[i].commandName = "customScript"
              /\ "zaddLimit" \in emitted[i].bound
        /\ handles[h].bound["zaddLimit"] = DefaultDefinition("zaddLimit")
        /\ scripts["zaddLimit"] # DefaultDefinition("zaddLimit")

\* C21: setHIfHigher on an absent field stores the given value and returns
\* that value; the calls 5, 3, 9 on a field that is absent at first return
\* 5, 0, 4 and leave 5, 5, 9 in the field.
C21_HigherFiveThreeNine ==
    /\ \A i \in DOMAIN hcalls :
          (hcalls[i].script = "setHIfHigher" /\ hcalls[i].before = <<>>) =>
              /\ hcalls[i].after = <<hcalls[i].value>>
              /\ Whole(hcalls[i].reply) = hcalls[i].value
    /\ ( /\ Len(hcalls) = 3
         /\ \A i \in 1..3 : hcalls[i].script = "setHIfHigher"
         /\ [i \in 1..3 |-> hcalls[i].value] = <<Whole(5), Whole(3), Whole(9)>> )
       => /\ [i \in 1..3 |-> hcalls[i].reply] = <<5, 0, 4>>
          /\ [i \in 1..3 |-> hcalls[i].after] =
                 <<<<Whole(5)>>, <<Whole(5)>>, <<Whole(9)>>>>

\* C22: on a field that holds the number c, setHIfHigher (setHIfLower)
\* writes the value v only when v > c (v < c) and then returns v - c; else
\* the field is left as it was and 0 is returned.
C22_WritesStrictlyBetterReturnsDelta ==
    \A i \in DOMAIN hcalls :
        LET call == hcalls[i]
        IN  call.before # <<>> =>
                IF \/ call.script = "setHIfHigher" /\ call.value > call.before[1]
                   \/ call.script = "setHIfLower" /\ call.value < call.before[1]
                THEN /\ call.after = <<call.value>>
                     /\ Whole(call.reply) = call.value - call.before[1]
                ELSE /\ call.after = call.before
                     /\ call.reply = 0

\* C23: expireNX leaves a key that has a time to live as it was (100 stays
\* 100 when called with 5), gives a key without expiry the time to live it
\* was called with (5), and creates nothing when the key does not exist.
C23_ExpireOnlyWithoutTtl ==
    \A i \in DOMAIN ttlcall :
        LET call == ttlcall[i]
        IN  /\ call.before >= 0 => call.after = call.before
            /\ (call.before = NoExpiry /\ call.seconds > 0) =>
                   call.after = call.seconds
            /\ call.before = NoSuchKey => call.after = NoSuchKey

C23_Witness ==
    /\ ttlcall # <<>>
    /\ ttlcall[1].before = MaxTtl
    /\ ttlcall[1].seconds = 5
    /\ ttlcall[1].after = MaxTtl
    /\ ttlkey = MaxTtl

\* The members whose four scores bracket the point: present in all four
\* sorted sets with lat:min <= lat <= lat:max and lon:min <= lon <= lon:max.
Enclosing(lat, lon) ==
    {m \in Chunks :
        /\ m \in DOMAIN bbox.latmin /\ bbox.latmin[m] <= lat
        /\ m \in DOMAIN bbox.latmax /\ bbox.latmax[m] >= lat
        /\ m \in DOMAIN bbox.lonmin /\ bbox.lonmin[m] <= lon
        /\ m \in DOMAIN bbox.lonmax /\ bbox.lonmax[m] >= lon}

\* C24: getPolylineChunks returns exactly the members found by all four
\* range scans, each once: none when no chunk encloses the point, never a
\* member missing from a scan, whatever KEYS[1]:tmp held before the call.
C24_ExactlyInAllFourScans ==
    \A c \in Clients : \A i \in DOMAIN queries[c] :
        LET q == queries[c][i]
        IN  /\ {q.result[k] : k \in DOMAIN q.result} = Enclosing(q.lat, q.lon)
            /\ Len(q.result) = Cardinality(Enclosing(q.lat, q.lon))

\* A query that found KEYS[1]:tmp holding counts, returned one chunk and left
\* out the other, which only some of the scans had found.
C24_Witness ==
    \E c \in Clients :
        /\ queries[c] # <<>>
        /\ queries[c][1].before # <<>>
        /\ \E m \in DOMAIN queries[c][1].before : queries[c][1].before[m] = 4
        /\ Len(queries[c][1].result) = 1
        /\ \E m \in DOMAIN tmp : tmp[m] \in 1..3

\* What the query returns when it runs alone: KEYS[1]:tmp does not exist.
Alone(lat, lon) == GetPolylineChunks(bbox, <<>>, lat, lon).result

\* Some client's query returned something else than it returns alone.
Interfered ==
    \E c \in Clients :
        /\ queries[c] # <<>>
        /\ queries[c][1].result # Alone(queries[c][1].lat, queries[c][1].lon)

\* Both clients have queried, at different points, and the later query
\* found the counts of the earlier one in KEYS[1]:tmp.
SharedAccumulator ==
    /\ \A c \in Clients : queries[c] # <<>>
    /\ <<queries["client1"][1].lat, queries["client1"][1].lon>> #
           <<queries["client2"][1].lat, queries["client2"][1].lon>>
    /\ \E c \in Clients : queries[c][1].before # <<>>

PositiveInteger(script) ==
    /\ "numberOfKeys" \in DOMAIN script
    /\ script.numberOfKeys > 0
    /\ script.numberOfKeys % Whole(1) = 0

\* The body is given and not empty.
HasBody(script) == "lua" \in DOMAIN script /\ script.lua # ""

\* C26: register throws whenever numberOfKeys is not a positive integer
\* (zero, negative, missing, not integral) or the body is empty, and a
\* register that throws leaves the registry as it was.
C26_InvalidDefinitionRefused ==
    \A i \in DOMAIN journal :
        /\ ~(PositiveInteger(journal[i].script) /\ HasBody(journal[i].script))
              => journal[i].threw
        /\ journal[i].threw => journal[i].after = journal[i].before

\* The definition of the latest register call for the name that did not
\* throw; without one, what the constructor stored under the name.
LatestRegistered(name) ==
    LET done == {i \in DOMAIN journal :
                    journal[i].name = name /\ ~journal[i].threw}
    IN  IF done # {}
        THEN <<journal[CHOOSE i \in done : \A j \in done : j <= i].script>>
        ELSE IF name \in DefaultScripts THEN <<DefaultDefinition(name)>>
        ELSE <<>>

\* C27: get(name) returns the definition of the latest successful register
\* for the name, for new and for built-in names alike, and nothing for a
\* name never registered; registering a name changes no other name.
C27_LastRegisterWins ==
    \A name \in DefaultScripts \cup RegisterNameInputs \cup {"unknownScript"} :
        Get(name) = LatestRegistered(name)

\* Both names were registered, the built-in one twice with different
\* definitions, and a refused register came last.
C27_Witness ==
    /\ Len(journal) = 3
    /\ journal[1].name = "zaddLimit" /\ ~journal[1].threw
    /\ journal[2].name = "zaddLimit" /\ ~journal[2].threw
    /\ journal[1].script # journal[2].script
    /\ journal[3].name = "zaddLimit" /\ journal[3].threw
    /\ Get("zaddLimit") = <<journal[2].script>>
    /\ Get("customScript") = <<>>
    /\ Get("expireNX") = <<DefaultDefinition("expireNX")>>

\* C28: getScripts(names) returns exactly the requested names that are
\* registered, each with the definition the registry holds, omits the
\* others, and leaves the registry as it was.
C28_FetchedAreRequestedAndRegistered ==
    \A i \in DOMAIN fetched :
        LET call == fetched[i]
            requested == {call.names[k] : k \in DOMAIN call.names}
        IN  /\ {call.result[k].name : k \in DOMAIN call.result} =
                   requested \cap DOMAIN call.before
            /\ \A k \in DOMAIN call.result :
                   call.result[k].script = call.before[call.result[k].name]
            /\ call.after = call.before

\* A call that asked for a registered new name, a re-registered default name
\* and an unknown name.
C28_Witness ==
    /\ fetched # <<>>
    /\ fetched[1].names = <<"customScript", "zaddLimit", "unknownScript">>
    /\ {fetched[1].result[k].name : k \in DOMAIN fetched[1].result} =
           {"customScript", "zaddLimit"}
    /\ fetched[1].before["zaddLimit"] # DefaultDefinition("zaddLimit")

\* The required methods that the logger given does not offer as functions.
NotCallable(customLogger) ==
    {method \in {"info", "error", "debug", "warn"} :
        Typeof(customLogger, method) # "function"}

\* The call installed the logger it was given.
Installed(call) == ~call.threw /\ call.after = call.customLogger

\* The call threw, named every missing method, each once, and left
\* this.logger as it was.
RefusedListingAll(call) ==
    /\ call.threw
    /\ {call.listed[k] : k \in DOMAIN call.listed} = NotCallable(call.customLogger)
    /\ Len(call.listed) = Cardinality(NotCallable(call.customLogger))
    /\ call.after = call.before

\* C29, as stated: setupLogger installs the logger if and only if its four
\* methods are functions; otherwise, no logger given included, it throws an
\* error that lists every missing method and leaves the logger unchanged.
C29_InstallsIffComplete ==
    \A i \in DOMAIN logcalls :
        IF logcalls[i].customLogger # "none" /\ NotCallable(logcalls[i].customLogger) = {}
        THEN Installed(logcalls[i])
        ELSE RefusedListingAll(logcalls[i])

\* C29, amended: the same for a logger object that is given; with no logger
\* given the call does not throw, returns the default logger and leaves
\* this.logger unchanged.
C29_InstallsIffCompleteWhenGiven ==
    \A i \in DOMAIN logcalls :
        IF logcalls[i].customLogger = "none"
        THEN /\ ~logcalls[i].threw
             /\ logcalls[i].returned = <<"defaultLogger">>
             /\ logcalls[i].after = logcalls[i].before
        ELSE IF NotCallable(logcalls[i].customLogger) = {}
        THEN Installed(logcalls[i])
        ELSE RefusedListingAll(logcalls[i])

\* A complete logger was installed, a logger with two methods that are not
\* functions was refused with both listed, and a call without a logger went
\* through; the first logger is still installed.
C29_Witness ==
    /\ Len(logcalls) = 3
    /\ logcalls[1].customLogger = "valid"
    /\ logcalls[2].customLogger = "notCallable"
    /\ logcalls[2].listed = <<"info", "debug">>
    /\ logcalls[3].customLogger = "none"
    /\ logger = "valid"

\* The delays are those of a linear backoff capped at 2000 ms: the n-th is
\* min(100 * n, 2000), a number, at most 2000 and not below the one before.
LinearCappedBackoff ==
    /\ retry.held = "default"
    /\ \A n \in DOMAIN retry.delays :
          /\ Len(retry.delays[n]) = 1
          /\ retry.delays[n][1] = IF 100 * n <= 2000 THEN 100 * n ELSE 2000
          /\ retry.delays[n][1] <= 2000
          /\ n > 1 => retry.delays[n][1] >= retry.delays[n - 1][1]

C31_RejectedCloseAllKeepsRegistry ==
    /\ (\E h \in closing.snapshot : handles[h].quit = "failed")
          => closing.status = "rejected"
    /\ closing.status = "rejected" =>
          /\ \A h \in closing.snapshot :
                GetConnection(handles[h].name) # [throws |-> "NotFoundError"]
          /\ Positions(emitted, "allConnectionsClosed") = {}

\* C31 witness: of a snapshot of two, one shutdown has succeeded (its
\* connectionClosed just emitted) and the other has failed; closeAll is
\* rejected and both handles are still what getConnection returns.
C31_Witness ==
    /\ closing.status = "rejected"
    /\ Cardinality(closing.snapshot) = 2
    /\ \E h \in closing.snapshot :
          /\ handles[h].quit = "ok"
          /\ emitted = <<Ev("connectionClosed", h)>>
    /\ \E h \in closing.snapshot : handles[h].quit = "failed"
    /\ \A h \in closing.snapshot : Registered(h)

\* What getConnection(name) gives a listener of '<name>:<signal>' or 'redis'
\* during a signal of h: the forwarders were subscribed before the listeners
\* of _handleConnectionPromise, so they run first, on the registry as it is
\* before the signal is handled.
AtForwarding(h) == GetConnection(handles[h].name)

\* The step is the first connect signal of the transport handle h.
FirstConnect(h) == ~handles[h].everConnected /\ OnConnect(h)

\* C32: on the first connect signal of a connection, '<name>:connect' and
\* 'redis' are emitted before the connection is registered: a listener of
\* either that calls getConnection(name) gets not-found, and a listener of
\* connectionEstablished, emitted after them, finds the name registered.
C32_ForwardedBeforeRegistered ==
    [][\A h \in HandleIds :
          FirstConnect(h) =>
              /\ AtForwarding(h) = [throws |-> "NotFoundError"]
              /\ \A i \in Positions(emitted', "connectionEstablished") :
                    /\ emitted'[i].registered # [throws |-> "NotFoundError"]
                    /\ \A j \in Positions(emitted', "qualified")
                                  \cup Positions(emitted', "redis") : j < i]_vars

\* The commands a handle has when exactly the entries of luaScripts are
\* defined on it: name -> definition.
ExactlyBound(luaScripts) ==
    [c \in ScriptNames(luaScripts) |->
        luaScripts[CHOOSE i \in DOMAIN luaScripts : luaScripts[i].name = c].script]

\* The events of the kind among the emitted ones, in order.
EventsOf(events, kind) == SelectSeq(events, LAMBDA e : e.event = kind)

\* C33: every connect signal of a handle, the first or a later one, registers
\* that handle under its name, binds exactly the definitions the creation call
\* captured, and emits one luaCommandDefined per bound script and then one
\* connectionEstablished; from its first connect on, getConnection(name)
\* returns that handle at every later connect signal, before and after it.
C33_EveryConnectReregisters ==
    [][\A h \in HandleIds :
          OnConnect(h) =>
              LET n == handles[h].name
                  luaScripts == CapturedScripts(h)
                  defined == EventsOf(emitted', "luaCommandDefined")
              IN  /\ Registered(h)'
                  /\ connections'[n].luaScripts = luaScripts
                  /\ handles'[h].bound = ExactlyBound(luaScripts)
                  /\ [i \in DOMAIN defined |-> defined[i].commandName]
                        = [i \in DOMAIN luaScripts |-> luaScripts[i].name]
                  /\ Positions(emitted', "connectionEstablished") = {Len(emitted')}
                  /\ \A i \in Positions(emitted', "luaCommandDefined") :
                        i < Len(emitted')
                  /\ handles[h].everConnected => Registered(h)]_vars

\* The step is an error, close, reconnecting or end signal of the handle h.
LossSignalOf(h) == OnError(h) \/ OnClose(h) \/ OnReconnecting(h) \/ OnEnd(h)

\* C34: an error, close, reconnecting or end signal of a handle whose connect
\* listener has registered it leaves the registry as it was (every name mapped
\* to the same handle with the same scripts), the commands bound to the handle
\* and a resolved creation call as they were; registry entries are removed
\* only by a closeAll that resolves.
C34_LossSignalsLeaveRegistry ==
    [][/\ \A h \in HandleIds :
            (handles[h].everConnected /\ LossSignalOf(h)) =>
                /\ connections' = connections
                /\ handles'[h].bound = handles[h].bound
                /\ handles[h].promise = "resolved" =>
                      handles'[h].promise = "resolved"
       /\ (DOMAIN connections \ DOMAIN connections' # {}) =>
             (closing.status = "waiting" /\ closing'.status = "resolved")]_vars

\* C34 witness: a registered handle with two commands bound, whose creation
\* call has resolved, has just raised an error: it is still what getConnection
\* returns and the call is still resolved.
C34_Witness ==
    \E h \in HandleIds :
        /\ emitted # <<>>
        /\ emitted[1] = TransportSignal(h, "error")
        /\ Registered(h)
        /\ handles[h].promise = "resolved"
        /\ Cardinality(DOMAIN handles[h].bound) = 2
        /\ connections[handles[h].name].luaScripts = handles[h].luaScripts

\* ------------------------------------------------- settling (fair transport)
\* The step is the connect or the error signal of the transport handle h.
SettlingSignal(h) == h \in HandleIds /\ (OnConnect(h) \/ OnError(h))

\* The calls and signals of one name with nobody listening, under the
\* assumption that a transport that can still emit connect or error
\* eventually emits one of them.  The service sets no timer of its own.
SpecSettling ==
    /\ InitQuiet
    /\ [][NextForward]_vars
    /\ \A h \in 1..MaxHandles : WF_vars(SettlingSignal(h))

Pending(h) == h \in HandleIds /\ handles[h].promise = "pending"

\* The call of h is settled, or its transport has ended without ever emitting
\* connect or error (then nothing settles the call: there is no timeout).
SettledOrSilent(h) ==
    /\ h \in HandleIds
    /\ \/ handles[h].promise # "pending"
       \/ handles[h].status = "end"

\* C35: a creation call that passed validation settles exactly once, by the
\* first of its transport's connect and error signals: connect resolves it,
\* error rejects it, no other step settles it and no later signal changes the
\* outcome; and when the transport eventually emits connect or error, the
\* call eventually settles.
C35_SettlesOnceByFirstSignal ==
    /\ [][\A h \in HandleIds :
            /\ handles[h].promise = "pending" =>
                  /\ OnConnect(h) => handles'[h].promise = "resolved"
                  /\ OnError(h) => handles'[h].promise = "rejected"
                  /\ ~(OnConnect(h) \/ OnError(h)) =>
                        handles'[h].promise = "pending"
            /\ handles[h].promise # "pending" =>
                  handles'[h].promise = handles[h].promise]_vars
    /\ \A h \in 1..MaxHandles : Pending(h) ~> SettledOrSilent(h)

\* C35 witness: one call was rejected by an error and its transport has
\* connected since; another was resolved and its transport has closed.
C35_Witness ==
    \E h1, h2 \in HandleIds :
        /\ handles[h1].promise = "rejected"
        /\ handles[h1].everConnected
        /\ handles[h2].promise = "resolved"
        /\ handles[h2].status = "close"

\* C36: closingAllConnections is the first thing a closeAll call does: when it
\* is emitted no shutdown of the call's snapshot has been issued yet;
\* allConnectionsClosed is emitted only when every shutdown of the snapshot
\* has succeeded and the registry has been emptied, with the call resolved;
\* a closeAll with nothing registered emits the two events in that order and
\* resolves.
C36_CloseAllEventOrder ==
    [][/\ Positions(emitted', "closingAllConnections") # {} =>
             /\ CloseAll
             /\ emitted'[1] = Ev("closingAllConnections", "all")
             /\ \A h \in Snapshot : handles[h].quit # "pending"
             /\ Snapshot # {} =>
                   Positions(emitted', "allConnectionsClosed") = {}
       /\ Positions(emitted', "allConnectionsClosed") # {} =>
             /\ \A h \in closing'.snapshot : handles'[h].quit = "ok"
             /\ connections' = <<>>
             /\ closing'.status = "resolved"
             /\ Positions(emitted', "allConnectionsClosed") = {Len(emitted')}
       /\ (CloseAll /\ Snapshot = {}) =>
             /\ emitted' = <<Ev("closingAllConnections", "all"),
                             Ev("allConnectionsClosed", "all")>>
             /\ closing'.status = "resolved"]_vars

\* C36 witness: the second shutdown of a snapshot of two has just succeeded:
\* connectionClosed, then allConnectionsClosed, the registry empty.
C36_Witness ==
    /\ closing.status = "resolved"
    /\ Cardinality(closing.snapshot) = 2
    /\ \A h \in closing.snapshot : handles[h].quit = "ok"
    /\ Len(emitted) = 2
    /\ emitted[1].event = "connectionClosed"
    /\ emitted[2] = Ev("allConnectionsClosed", "all")
    /\ connections = <<>>

\* The names of a luaScriptNames argument.
Requested(scriptNames) == {scriptNames[i] : i \in DOMAIN scriptNames}

\* The step is a creation call that passed validation and opened a transport.
Opens == Len(handles') = Len(handles) + 1

\* C37: a creation call whose scriptNames hold names the script registry does
\* not know does not fail: it opens its transport with its promise pending and
\* keeps the requested names that are registered, each with its definition;
\* on connect exactly those are bound, one luaCommandDefined each, the
\* unknown names are skipped without an event, and the call resolves.
C37_UnknownNamesSkipped ==
    [][/\ Opens =>
             LET h == Len(handles')
                 known == Requested(handles'[h].requested) \cap DOMAIN scripts
             IN  /\ handles'[h].promise = "pending"
                 /\ ExactlyBound(handles'[h].luaScripts) = [c \in known |-> scripts[c]]
                 /\ Emit(<<Ev("connectionAttempt", handles'[h].name)>>) = emitted'
       /\ \A h \in HandleIds :
             OnConnect(h) =>
                 LET defined == EventsOf(emitted', "luaCommandDefined")
                     kept == ScriptNames(handles[h].luaScripts)
                 IN  /\ DOMAIN handles'[h].bound = kept
                     /\ {defined[i].commandName : i \in DOMAIN defined} = kept
                     /\ Len(defined) = Cardinality(kept)
                     /\ Positions(emitted', "error") = {}
                     /\ handles[h].promise = "pending" =>
                           handles'[h].promise = "resolved"]_vars

\* C37 witness: a call that asked for customScript, which the registry does
\* not hold, and zaddLimit has just connected: zaddLimit alone is bound, one
\* luaCommandDefined was emitted, the call is resolved.
C37_Witness ==
    \E h \in HandleIds :
        /\ handles[h].requested = <<"customScript", "zaddLimit">>
        /\ "customScript" \notin DOMAIN scripts
        /\ DOMAIN handles[h].bound = {"zaddLimit"}
        /\ handles[h].promise = "resolved"
        /\ emitted # <<>>
        /\ emitted[1] = TransportSignal(h, "connect")
        /\ Cardinality(Positions(emitted, "luaCommandDefined")) = 1

\* C38: from an empty set, under zaddLimit calls that all use one limit >= 0
\* and one trim count >= 1, the cardinality is at most limit after every
\* call, and a call whose add leaves at most limit members removes none.
C38_CardinalityCapped ==
    /\ [](Cardinality(DOMAIN zset) <= zlimit)
    /\ [][\A member \in Members, score \in Scores :
            ZaddLimitCall(member, score, zlimit, ztrim) =>
                LET added == ZAdd(zset, score, member)
                IN  Cardinality(DOMAIN added) <= zlimit =>
                        /\ Removed(member) = {}
                        /\ zset' = added]_vars

\* C38 witness: with limit 2 and trim count 1 three members were added and
\* the set holds two of them.
C38_Witness ==
    /\ zlimit = 2
    /\ ztrim = 1
    /\ Cardinality(zadded) = 3
    /\ Cardinality(DOMAIN zset) = 2

\* The values supplied by the calls so far.
Supplied == {hcalls[i].value : i \in DOMAIN hcalls}

\* At least one call was made and every call so far ran the script.
OnlyCalls(script) ==
    /\ hcalls # <<>>
    /\ \A i \in DOMAIN hcalls : hcalls[i].script = script

Maximum(S) == CHOOSE x \in S : \A y \in S : y <= x

Minimum(S) == CHOOSE x \in S : \A y \in S : x <= y

\* C39: on a field that starts absent, after setHIfHigher calls only the field
\* holds the maximum of the values supplied so far and no call lowered it;
\* after setHIfLower calls only it holds the minimum and no call raised it;
\* so the value held depends on the values supplied, not on their order.
C39_HoldsExtremeOfSupplied ==
    /\ OnlyCalls("setHIfHigher") =>
          /\ hfield = <<Maximum(Supplied)>>
          /\ \A i \in DOMAIN hcalls :
                hcalls[i].before # <<>> =>
                    hcalls[i].after[1] >= hcalls[i].before[1]
    /\ OnlyCalls("setHIfLower") =>
          /\ hfield = <<Minimum(Supplied)>>
          /\ \A i \in DOMAIN hcalls :
                hcalls[i].before # <<>> =>
                    hcalls[i].after[1] <= hcalls[i].before[1]

\* C39 witness: setHIfHigher was called with 5, 9 and 5.5 in that order and
\* the field holds 9.
C39_Witness ==
    /\ OnlyCalls("setHIfHigher")
    /\ [i \in DOMAIN hcalls |-> hcalls[i].value]
          = <<Whole(5), Whole(9), Whole(5) + 1>>
    /\ hfield = <<Whole(9)>>

====
